---- MODULE Spec2Model ----
(***************************************************************************)
(* Model of the runesmith two-stage documentation pipeline:                *)
(*   crawler.collect_code_chunks  (Repository Scanner)                     *)
(*   llm.generate_docs            (Generation Gateway)                     *)
(*   llm.build_instruction        (Instruction Builder)                    *)
(*   cli.generate_from_config     (Pipeline Orchestrator)                  *)
(*                                                                         *)
(* A text (path, file content, prompt, response) is a sequence of symbols. *)
(* Paths, extensions, ignore patterns and document type names are spelled  *)
(* character by character; a fixed literal of the program's prose is one   *)
(* symbol; "FENCE" is the three-backquote fence marker.                    *)
(***************************************************************************)
EXTENDS Integers, Sequences, FiniteSets, TLC

VARIABLES
    tree,         \* relative paths of the regular files below code_path
    unreadable,   \* files of the tree whose read_text raises
    bigfiles,     \* files of the tree whose content exceeds every window
    gitignore,    \* pattern lines of <root>/.gitignore
    cfg,          \* the configuration dict handed to generate_from_config
    pc,           \* position of generate_from_config
    visited,      \* files root.rglob("*") has produced so far
    warnings,     \* collect_code_chunks: the local list warnings
    printed,      \* warnings printed on the console, in order
    chunks,       \* generate_from_config: the list chunks
    chunk_docs,   \* generate_from_config: the list chunk_docs
    k,            \* index of the next chunk / doc type of the running loop
    calls,        \* log of generate_docs invocations, in order
    cache_docs,   \* <output_dir>/cache_docs : file name -> text
    out_files,    \* <output_dir>            : file name -> text
    written,      \* log of write_to_file targets, in order
    prior_out,    \* <output_dir> as generate_from_config found it
    tuples,       \* log of the (chunk, warnings) tuples the scanner yielded
    rerun,        \* which run this is, where output_dir lies, what run 1 scanned
    arg,          \* a function of llm.py called on its own: its arguments
    res           \* ... and what it returned

vars == <<tree, unreadable, bigfiles, gitignore, cfg, pc, visited, warnings,
          printed, chunks, chunk_docs, k, calls, cache_docs, out_files,
          written, prior_out, tuples, rerun, arg, res>>

----------------------------------------------------------------------------
(* Bounds of the model *)

MaxFiles == 2
MaxScanFiles == 3
MaxDocTypes == 2
MaxBlacklist == 1
MaxPatterns == 1
MaxLines == 4

----------------------------------------------------------------------------
(* Generic text helpers *)

\* str.join
RECURSIVE Join(_, _)
Join(sep, ss) ==
    IF ss = <<>> THEN <<>>
    ELSE IF Len(ss) = 1 THEN ss[1]
    ELSE ss[1] \o sep \o Join(sep, Tail(ss))

\* str.replace(old, new) for a single character
Replace(s, old, new) == [i \in 1..Len(s) |-> IF s[i] = old THEN new ELSE s[i]]

\* str.rfind(c), 1-based, 0 when absent
RFind(s, c) ==
    IF \E i \in 1..Len(s) : s[i] = c
    THEN CHOOSE i \in 1..Len(s) : s[i] = c /\ \A j \in (i+1)..Len(s) : s[j] # c
    ELSE 0

\* str.split(c)
RECURSIVE Split(_, _)
Split(s, c) ==
    IF \A i \in 1..Len(s) : s[i] # c THEN <<s>>
    ELSE LET i == CHOOSE n \in 1..Len(s) : s[n] = c /\ \A j \in 1..(n-1) : s[j] # c
         IN <<SubSeq(s, 1, i-1)>> \o Split(SubSeq(s, i+1, Len(s)), c)

\* str.lower on the letters the model uses
LowerChar(c) ==
    CASE c = "R" -> "r"
      [] c = "U" -> "u"
      [] c = "T" -> "t"
      [] c = "X" -> "x"
      [] c = "O" -> "o"
      [] c = "A" -> "a"
      [] c = "I" -> "i"
      [] c = "G" -> "g"
      [] c = "P" -> "p"
      [] c = "E" -> "e"
      [] c = "N" -> "n"
      [] OTHER   -> c

Lower(s) == [i \in 1..Len(s) |-> LowerChar(s[i])]

----------------------------------------------------------------------------
(* pathlib *)

\* PurePath.parts of a relative path
Parts(p) == Split(p, "/")

\* PurePath.name
Name(p) == Parts(p)[Len(Parts(p))]

\* PurePath.suffix: from the last dot of the name, unless that dot is the
\* first or the last character of the name
Suffix(p) ==
    LET name == Name(p)
        i    == RFind(name, ".")
    IN IF 1 < i /\ i < Len(name) THEN SubSeq(name, i, Len(name)) ELSE <<>>

----------------------------------------------------------------------------
(* crawler.py *)

NoExtension == <<"(no extension)">>

DotGit == <<".", "g", "i", "t">>

\* fp.suffix or "(no extension)"
ExtLabel(p) == IF Suffix(p) = <<>> THEN NoExtension ELSE Suffix(p)

InDotGit_mut(p) == Parts(p)[1] = DotGit /\ Len(Parts(p)) = 1

\* ".git" in fp.parts
InDotGit(p) == \E i \in 1..Len(Parts(p)) : Parts(p)[i] = DotGit

\* gitwildmatch of one slash-free pattern against one path component:
\* "*" matches any run of characters, every other character itself
RECURSIVE GlobMatch(_, _)
GlobMatch(pat, s) ==
    IF pat = <<>> THEN s = <<>>
    ELSE IF Head(pat) = "*"
         THEN GlobMatch(Tail(pat), s) \/ (s # <<>> /\ GlobMatch(pat, Tail(s)))
         ELSE s # <<>> /\ Head(s) = Head(pat) /\ GlobMatch(Tail(pat), Tail(s))

\* PathSpec.match_file: a slash-free pattern matches a path when it matches
\* the file's name or the name of one of its parent directories
MatchFile(spec, rel) ==
    \E pat \in spec : \E i \in 1..Len(Parts(rel)) : GlobMatch(pat, Parts(rel)[i])

GitignoreName == <<".", "g", "i", "t", "i", "g", "n", "o", "r", "e">>

\* load_gitignore: None when the root has no .gitignore, else the PathSpec
\* compiled from its lines
NoSpec == [none |-> TRUE, lines |-> {}]

load_gitignore ==
    IF GitignoreName \in tree THEN [none |-> FALSE, lines |-> gitignore] ELSE NoSpec

is_ignored_mut(fp, spec) == FALSE

is_ignored(fp, spec) == IF spec.none THEN FALSE ELSE MatchFile(spec.lines, fp)

\* blacklist and ext in blacklist
Blacklisted(fp) == cfg.blacklist # {} /\ ExtLabel(fp) \in cfg.blacklist

\* The code point of a character of an extension label; the label of a
\* file without extension counts by its first character, "("
CodePoint(c) ==
    CASE c = "(no extension)" -> 40
      [] c = "." -> 46
      [] c = "d" -> 100
      [] c = "g" -> 103
      [] c = "l" -> 108
      [] c = "m" -> 109
      [] c = "o" -> 111
      [] c = "p" -> 112
      [] c = "t" -> 116
      [] c = "x" -> 120
      [] c = "y" -> 121
      [] OTHER -> 0

\* str.__lt__: the order sorted() uses
RECURSIVE StrLess(_, _)
StrLess(a, b) ==
    IF b = <<>> THEN FALSE
    ELSE IF a = <<>> THEN TRUE
    ELSE IF Head(a) = Head(b) THEN StrLess(Tail(a), Tail(b))
    ELSE CodePoint(Head(a)) < CodePoint(Head(b))

\* sorted(S) of a set of strings
RECURSIVE Sorted(_)
Sorted(S) ==
    IF S = {} THEN <<>>
    ELSE LET least == CHOOSE x \in S : \A y \in S \ {x} : StrLess(x, y)
         IN <<least>> \o Sorted(S \ {least})

\* find_extensions(dir_path): fp.is_file() and not is_ignored(fp, spec, root)
\* selects the files; the .git test of collect_code_chunks is not made
find_extensions ==
    LET all_files == {fp \in tree : ~is_ignored(fp, load_gitignore)}
        ext_set == {ExtLabel(fp) : fp \in all_files}
    IN Sorted(ext_set)

SkipWarning(fp) == [kind |-> "skip", file |-> fp, ext |-> ExtLabel(fp)]

ReadWarning(fp) == [kind |-> "unreadable", file |-> fp, ext |-> <<>>]

----------------------------------------------------------------------------
(* llm.py *)

OpenAI == <<"O", "p", "e", "n", "A", "I">>
Gemini == <<"G", "e", "m", "i", "n", "i">>
Ollama == <<"O", "l", "l", "a", "m", "a">>
None == <<>>

\* PROVIDER_MODELS, the entries the model's configurations select
PROVIDER_MODELS ==
    [p \in {OpenAI, Gemini} |->
        IF p = OpenAI THEN [m \in {"gpt-4.1", "gpt-4o"} |->
                               IF m = "gpt-4.1" THEN 1000000 ELSE 128000]
        ELSE [m \in {"gemini-2.0-flash", "gemini-1.5-pro"} |->
                               IF m = "gemini-1.5-pro" THEN 2000000 ELSE 1000000]]

Registered(provider, model) ==
    provider \in DOMAIN PROVIDER_MODELS /\ model \in DOMAIN PROVIDER_MODELS[provider]

\* float("inf"), and an integer window
Infinity == [finite |-> FALSE, size |-> 0]

Finite(n) == [finite |-> TRUE, size |-> n]

\* get_context_window: PROVIDER_MODELS[provider][model]["context_window"]
\* inside try/except Exception. A missing key raises KeyError; a registered
\* entry is an int, and subscripting an int raises TypeError
get_context_window(provider, model) ==
    IF ~Registered(provider, model) THEN Infinity
    ELSE LET entry == PROVIDER_MODELS[provider][model]
         IN IF entry \in Int THEN Infinity
            ELSE Finite(entry.context_window)

\* A block of text longer than every registered window
HugeTokens == PROVIDER_MODELS[Gemini]["gemini-1.5-pro"] + 1

\* tiktoken: the number of tokens of a text; every symbol is one token,
\* the symbol "HUGE" stands for a block of HugeTokens tokens
RECURSIVE count_tokens(_)
count_tokens(text) ==
    IF text = <<>> THEN 0
    ELSE (IF Head(text) = "HUGE" THEN HugeTokens ELSE 1) + count_tokens(Tail(text))

\* check_context_window: full_prompt = instruct + "\n" + prompt
FullPrompt(instruct, prompt) == instruct \o <<"\n">> \o prompt

\* str.splitlines
SplitLines(text) ==
    IF text = <<>> THEN <<>>
    ELSE LET parts == Split(text, "\n")
         IN IF parts[Len(parts)] = <<>> THEN SubSeq(parts, 1, Len(parts) - 1)
            ELSE parts

IsSpace(c) == c \in {" ", "\t"}

\* str.strip
RECURSIVE Strip(_)
Strip(line) ==
    IF line = <<>> THEN <<>>
    ELSE IF IsSpace(Head(line)) THEN Strip(Tail(line))
    ELSE IF IsSpace(line[Len(line)]) THEN Strip(SubSeq(line, 1, Len(line) - 1))
    ELSE line

unwrap_markdown_block(text) ==
    LET lines == SplitLines(text)
    IN IF /\ Len(lines) >= 2
          /\ Strip(lines[1]) = <<"FENCE", "markdown">>
          /\ Strip(lines[Len(lines)]) = <<"FENCE">>
       THEN Join(<<"\n">>, SubSeq(lines, 2, Len(lines) - 1))
       ELSE text

\* _GENERATORS: the keys of the backend table
Generators ==
    { <<"o", "p", "e", "n", "a", "i">>,
      <<"a", "z", "u", "r", "e", "o", "p", "e", "n", "a", "i">>,
      <<"a", "n", "t", "h", "r", "o", "p", "i", "c">>,
      <<"g", "o", "o", "g", "l", "e">>,
      <<"o", "l", "l", "a", "m", "a">> }

\* os.getenv("LLM_PROVIDER", "openai").lower(), the variable unset
DEFAULT_PROVIDER == Lower(<<"o", "p", "e", "n", "a", "i">>)

Backend_mut(provider) == IF provider = None THEN DEFAULT_PROVIDER ELSE provider

\* (provider or DEFAULT_PROVIDER).lower()
Backend(provider) == Lower(IF provider = None THEN DEFAULT_PROVIDER ELSE provider)

\* What a backend can answer: a plain text, or the text wrapped in a fence
RawResponses ==
    { <<"s1">>,
      <<"FENCE", "markdown", "\n", "s2", "\n", "FENCE">> }

\* No backend was invoked
NoBackend == <<"-">>

\* generate_docs: the outcomes of one invocation. "unsupported" is the
\* ValueError raised before any backend runs, "error" an exception of the
\* backend, "ok" the unwrapped text of the backend's answer; backend is the
\* key of _GENERATORS whose function was invoked
generate_docs(provider) ==
    IF Backend(provider) \notin Generators
    THEN {[status |-> "unsupported", text |-> <<>>, backend |-> NoBackend]}
    ELSE {[status |-> "error", text |-> <<>>, backend |-> Backend(provider)]}
         \cup {[status |-> "ok", text |-> unwrap_markdown_block(raw),
                backend |-> Backend(provider)] : raw \in RawResponses}

\* f"{doc_type.lower().replace(' ', '_')}.md"
ArtifactName(doc_type) == Replace(Lower(doc_type), " ", "_") \o <<".md">>

UpdateInstruction ==
    <<"The documentation already exists. Update, proofread, and tweak it ...">>

\* The base prompt of a new document
FreshInstruction(doc_type) ==
    <<"You are an expert coder and explainer that writes high-quality ">>
    \o doc_type \o <<" for developers. ">>

\* is_within_directory(out_file, code_path), from where output_dir lies:
\* "outside" code_path, the "same" directory, or a directory "inside" it
is_within_directory(placement) == placement \in {"same", "inside"}

build_instruction_mut(doc_type, custom_instruct) ==
    IF ArtifactName(doc_type) \in DOMAIN out_files
    THEN UpdateInstruction \o out_files[ArtifactName(doc_type)] \o custom_instruct
    ELSE FreshInstruction(doc_type) \o custom_instruct

\* runesmith/llm.py: code_path is a parameter the body never uses
build_instruction(doc_type, custom_instruct) ==
    IF ArtifactName(doc_type) \in DOMAIN out_files
    THEN UpdateInstruction \o custom_instruct \o out_files[ArtifactName(doc_type)]
    ELSE FreshInstruction(doc_type) \o custom_instruct

\* core/llm.py: the file is read only when it is not inside code_path
build_instruction_core(doc_type, custom_instruct, placement) ==
    IF ArtifactName(doc_type) \in DOMAIN out_files
    THEN LET existing_doc == IF ~is_within_directory(placement)
                             THEN out_files[ArtifactName(doc_type)] ELSE <<>>
         IN UpdateInstruction \o custom_instruct \o existing_doc
    ELSE FreshInstruction(doc_type) \o custom_instruct

----------------------------------------------------------------------------
(* cli.py *)

\* f"{chunk['path'].replace('/', '_').replace('.', '_')}.md"
CacheName(path) == Replace(Replace(path, "/", "_"), ".", "_") \o <<".md">>

SummaryInstruct ==
    <<"You are a professional technical writer. Summarise and list ...\n">>

\* f"\n# File: {chunk['path']}\n{chunk['content']}"
SummaryPrompt(chunk) ==
    <<"\n", "# File: ">> \o chunk.path \o <<"\n">> \o chunk.content

CombinedDraft_mut(docs) == Join(<<"\n">>, docs)

\* "\n\n".join(chunk_docs)
CombinedDraft(docs) == Join(<<"\n", "\n">>, docs)

FinalPrompt(doc_type, combined_draft) ==
    <<"You are a professional technical writer. Merge and organize the following ">>
    \o doc_type
    \o <<" drafts into a coherent document ... polished transitions.", "\n", "\n">>
    \o combined_draft

\* write_to_file into a directory
WriteFile(dir, name, text) ==
    [n \in DOMAIN dir \cup {name} |-> IF n = name THEN text ELSE dir[n]]

EmptyDir == [n \in {} |-> <<>>]

\* fp.read_text of a readable file
ContentOf(fp) == IF fp \in bigfiles THEN <<"src", "HUGE">> ELSE <<"src">>

Call(stage, unit, instruct, prompt, outcome) ==
    [stage |-> stage, unit |-> unit, model |-> cfg.model,
     provider |-> cfg.provider, instruct |-> instruct, prompt |-> prompt,
     status |-> outcome.status, result |-> outcome.text]

----------------------------------------------------------------------------
(* Inputs *)

A_py == <<"a", ".", "p", "y">>
A_py_flat == <<"a", "_", "p", "y">>
B_txt == <<"b", ".", "t", "x", "t">>
C_log == <<"c", ".", "l", "o", "g">>
Git_h_txt == <<".", "g", "i", "t", "/", "h", ".", "t", "x", "t">>

ScanFiles == {A_py, A_py_flat, B_txt, C_log, GitignoreName, Git_h_txt}

PipelineFiles == {A_py, A_py_flat, B_txt}

StarLog == <<"*", ".", "l", "o", "g">>
StarTxt == <<"*", ".", "t", "x", "t">>

PatternUniverse == {StarLog, StarTxt}

ExtUniverse == { <<".", "t", "x", "t">>, <<".", "T", "X", "T">>,
                 <<".", "p", "y">>, NoExtension }

Readme == <<"R", "e", "a", "d", "m", "e">>
UserGuide == <<"U", "s", "e", "r", " ", "g", "u", "i", "d", "e">>
User_guide == <<"u", "s", "e", "r", "_", "g", "u", "i", "d", "e">>

DocTypeUniverse == {Readme, UserGuide, User_guide}

SubsetsUpTo(S, n) == {x \in SUBSET S : Cardinality(x) <= n}

\* Lists of at most n distinct elements of S
ListsUpTo(S, n) ==
    {l \in UNION {[1..m -> S] : m \in 0..n} :
        \A i, j \in 1..Len(l) : i # j => l[i] # l[j]}

ProviderModels ==
    { <<OpenAI, "gpt-4o">>, <<Gemini, "gemini-2.0-flash">>, <<None, "gpt-4o">>,
      <<Ollama, "llama3">> }

\* What the output directory can hold on entry: nothing, or the Readme
\* artifact of an earlier run
OldReadme == [n \in {ArtifactName(Readme)} |-> <<"old">>]

PriorDirs == {EmptyDir, OldReadme}

\* No function is being called on its own
Idle == [fn |-> "none"]

\* Where output_dir lies relative to code_path
Placements == {"outside", "same", "inside"}

\* The first run with this configuration; output_dir lies "outside"
\* code_path, is the "same" directory, or is the directory docs "inside" it
FirstRun(placement) == [n |-> 1, placement |-> placement, first |-> {}]

Config(provider, model, blacklist, doc_types) ==
    [provider |-> provider, model |-> model, blacklist |-> blacklist,
     doc_types |-> doc_types, custom_instructions |-> <<"custom">>]

\* State of generate_from_config on entry
InitRun ==
    /\ pc = "start"
    /\ visited = {}
    /\ warnings = <<>>
    /\ printed = <<>>
    /\ chunks = <<>>
    /\ chunk_docs = <<>>
    /\ k = 1
    /\ calls = <<>>
    /\ cache_docs = EmptyDir
    /\ out_files = prior_out
    /\ written = <<>>
    /\ tuples = <<>>
    /\ arg = Idle
    /\ res = Idle

\* Trees, ignore files and blacklists that exercise the scanner
InitScan ==
    /\ tree \in SubsetsUpTo(ScanFiles, MaxScanFiles)
    /\ unreadable \in SubsetsUpTo(tree \ {GitignoreName}, 1)
    /\ bigfiles = {}
    /\ gitignore \in (IF GitignoreName \in tree
                      THEN SubsetsUpTo(PatternUniverse, MaxPatterns) ELSE {{}})
    /\ \E bl \in SubsetsUpTo(ExtUniverse, MaxBlacklist) :
           cfg = Config(OpenAI, "gpt-4o", bl, <<Readme>>)
    /\ prior_out = EmptyDir
    /\ rerun = FirstRun("outside")
    /\ InitRun

\* Providers, document types and file sizes that exercise the two stages
InitPipeline ==
    /\ tree \in SubsetsUpTo(PipelineFiles, MaxFiles)
    /\ unreadable = {}
    /\ bigfiles \in SubsetsUpTo(tree, 1)
    /\ gitignore = {}
    /\ \E pm \in ProviderModels : \E dts \in ListsUpTo(DocTypeUniverse, MaxDocTypes) :
           cfg = Config(pm[1], pm[2], {}, dts)
    /\ prior_out \in PriorDirs
    /\ rerun = FirstRun("outside")
    /\ InitRun

\* The root of the scanner scenario: a.py, b.txt, c.log and .gitignore
\* holding "*.log", scanned with blacklist [".txt"]
ScenarioTree == {A_py, B_txt, C_log, GitignoreName}

ScenarioBlacklist == { <<".", "t", "x", "t">> }

InitScenario ==
    /\ tree = ScenarioTree
    /\ unreadable = {}
    /\ bigfiles = {}
    /\ gitignore = {StarLog}
    /\ cfg = Config(OpenAI, "gpt-4o", ScenarioBlacklist, <<Readme>>)
    /\ prior_out = EmptyDir
    /\ rerun = FirstRun("outside")
    /\ InitRun

Init == InitScan \/ InitPipeline \/ InitScenario

----------------------------------------------------------------------------
(* cli.generate_from_config and the generator it drives *)

env == <<tree, unreadable, bigfiles, gitignore, cfg, prior_out, tuples, rerun,
        arg, res>>

\* What a scan step that yields leaves alone
inputs == <<tree, unreadable, bigfiles, gitignore, cfg, prior_out, rerun, arg,
           res>>

NoDocTypesMessage ==
    [kind |-> "No documentation types selected, exiting.", file |-> <<>>,
     ext |-> <<>>]

\* if not doc_types: console.print(...); sys.exit(1)
ExitNoDocTypes ==
    /\ pc = "start"
    /\ cfg.doc_types = <<>>
    /\ printed' = Append(printed, NoDocTypesMessage)
    /\ pc' = "exit"
    /\ UNCHANGED <<env, visited, warnings, chunks, chunk_docs, k,
                   calls, cache_docs, out_files, written>>

StartScan_mut ==
    /\ pc = "start"
    /\ pc' = "scanning"
    /\ UNCHANGED <<env, visited, warnings, printed, chunks, chunk_docs, k,
                   calls, cache_docs, out_files, written>>

StartScan ==
    /\ pc = "start"
    /\ cfg.doc_types # <<>>
    /\ pc' = "scanning"
    /\ UNCHANGED <<env, visited, warnings, printed, chunks, chunk_docs, k,
                   calls, cache_docs, out_files, written>>

\* The next path of root.rglob("*"): the order is the file system's
NextPath(fp) ==
    /\ pc = "scanning"
    /\ fp \in tree \ visited
    /\ visited' = visited \cup {fp}

\* if ".git" in fp.parts: continue
ScanSkipGit(fp) ==
    /\ NextPath(fp)
    /\ InDotGit(fp)
    /\ UNCHANGED <<env, pc, warnings, printed, chunks, chunk_docs, k, calls,
                   cache_docs, out_files, written>>

\* if not fp.is_file() or is_ignored(fp, spec, root): continue
ScanSkipIgnored(fp) ==
    /\ NextPath(fp)
    /\ ~InDotGit(fp)
    /\ is_ignored(fp, load_gitignore)
    /\ UNCHANGED <<env, pc, warnings, printed, chunks, chunk_docs, k, calls,
                   cache_docs, out_files, written>>

\* if blacklist and ext in blacklist: warnings.append(...); continue
ScanBlacklisted(fp) ==
    /\ NextPath(fp)
    /\ ~InDotGit(fp)
    /\ ~is_ignored(fp, load_gitignore)
    /\ Blacklisted(fp)
    /\ warnings' = Append(warnings, SkipWarning(fp))
    /\ UNCHANGED <<env, pc, printed, chunks, chunk_docs, k, calls,
                   cache_docs, out_files, written>>

\* except Exception as e: warnings.append(...)
ScanUnreadable(fp) ==
    /\ NextPath(fp)
    /\ ~InDotGit(fp)
    /\ ~is_ignored(fp, load_gitignore)
    /\ ~Blacklisted(fp)
    /\ fp \in unreadable
    /\ warnings' = Append(warnings, ReadWarning(fp))
    /\ UNCHANGED <<env, pc, printed, chunks, chunk_docs, k, calls,
                   cache_docs, out_files, written>>

\* The caller's loop body on one yielded tuple: print every warning of the
\* yielded list, then keep the chunk
Consume(out, ws) == out \o ws

ScanYield_mut(fp) ==
    /\ NextPath(fp)
    /\ ~InDotGit(fp)
    /\ ~is_ignored(fp, load_gitignore)
    /\ ~Blacklisted(fp)
    /\ fp \notin unreadable
    /\ tuples' = Append(tuples, [path |-> fp, warnings |-> warnings])
    /\ printed' = Consume(printed, warnings)
    /\ chunks' = Append(chunks, [path |-> fp, content |-> ContentOf(fp)])
    /\ warnings' = warnings
    /\ UNCHANGED <<inputs, pc, chunk_docs, k, calls, cache_docs, out_files,
                   written>>

\* yield {...}, warnings: the caller prints the list and appends the chunk,
\* then the generator resumes with warnings.clear()
ScanYield(fp) ==
    /\ NextPath(fp)
    /\ ~InDotGit(fp)
    /\ ~is_ignored(fp, load_gitignore)
    /\ ~Blacklisted(fp)
    /\ fp \notin unreadable
    /\ tuples' = Append(tuples, [path |-> fp, warnings |-> warnings])
    /\ printed' = Consume(printed, warnings)
    /\ chunks' = Append(chunks, [path |-> fp, content |-> ContentOf(fp)])
    /\ warnings' = <<>>
    /\ UNCHANGED <<inputs, pc, chunk_docs, k, calls, cache_docs, out_files,
                   written>>

\* The generator is exhausted: the for loop ends, the directories are made
ScanEnd ==
    /\ pc = "scanning"
    /\ visited = tree
    /\ pc' = "summarizing"
    /\ k' = 1
    /\ UNCHANGED <<env, visited, warnings, printed, chunks, chunk_docs,
                   calls, cache_docs, out_files, written>>

\* for x in xs: the loop is over once index i has passed the list
LoopOver_mut(i, xs) == i >= Len(xs)

LoopOver(i, xs) == i > Len(xs)

\* chunk_docs.append(result)
Retain_mut(docs, result) == <<result>> \o docs

Retain(docs, result) == Append(docs, result)

\* One iteration of "for chunk in chunks" whose generate_docs returns
SummariseOk ==
    /\ pc = "summarizing"
    /\ ~LoopOver(k, chunks)
    /\ \E o \in generate_docs(cfg.provider) :
        /\ o.status = "ok"
        /\ calls' = Append(calls, Call("summary", k, SummaryInstruct,
                                       SummaryPrompt(chunks[k]), o))
        /\ cache_docs' = WriteFile(cache_docs, CacheName(chunks[k].path), o.text)
        /\ written' = Append(written, <<"cache_docs", CacheName(chunks[k].path)>>)
        /\ chunk_docs' = Retain(chunk_docs, o.text)
    /\ k' = k + 1
    /\ UNCHANGED <<env, pc, visited, warnings, printed, chunks, out_files>>

SummariseRaise_mut ==
    /\ pc = "summarizing"
    /\ ~LoopOver(k, chunks)
    /\ \E o \in generate_docs(cfg.provider) :
        /\ o.status # "ok"
        /\ calls' = Append(calls, Call("summary", k, SummaryInstruct,
                                       SummaryPrompt(chunks[k]), o))
    /\ k' = k + 1
    /\ UNCHANGED <<env, pc, visited, warnings, printed, chunks, chunk_docs,
                   cache_docs, out_files, written>>

\* One iteration whose generate_docs raises: nothing catches the exception
SummariseRaise ==
    /\ pc = "summarizing"
    /\ ~LoopOver(k, chunks)
    /\ \E o \in generate_docs(cfg.provider) :
        /\ o.status # "ok"
        /\ calls' = Append(calls, Call("summary", k, SummaryInstruct,
                                       SummaryPrompt(chunks[k]), o))
    /\ pc' = "raised"
    /\ UNCHANGED <<env, visited, warnings, printed, chunks, chunk_docs, k,
                   cache_docs, out_files, written>>

SummariseEnd_mut ==
    /\ pc = "summarizing"
    /\ LoopOver(k, chunks)
    /\ pc' = "done"
    /\ k' = 1
    /\ UNCHANGED <<env, visited, warnings, printed, chunks, chunk_docs,
                   calls, cache_docs, out_files, written>>

\* The summarizing loop is over: the merge loop starts
SummariseEnd ==
    /\ pc = "summarizing"
    /\ LoopOver(k, chunks)
    /\ pc' = "merging"
    /\ k' = 1
    /\ UNCHANGED <<env, visited, warnings, printed, chunks, chunk_docs,
                   calls, cache_docs, out_files, written>>

\* One iteration of "for doc_type in doc_types" whose generate_docs returns
MergeOk ==
    /\ pc = "merging"
    /\ ~LoopOver(k, cfg.doc_types)
    /\ LET doc_type == cfg.doc_types[k]
           instruct_template == build_instruction(doc_type, cfg.custom_instructions)
           final_prompt == FinalPrompt(doc_type, CombinedDraft(chunk_docs))
       IN \E o \in generate_docs(cfg.provider) :
            /\ o.status = "ok"
            /\ calls' = Append(calls, Call("merge", k, instruct_template,
                                           final_prompt, o))
            /\ out_files' = WriteFile(out_files, ArtifactName(doc_type), o.text)
            /\ written' = Append(written, <<"output_dir", ArtifactName(doc_type)>>)
    /\ k' = k + 1
    /\ UNCHANGED <<env, pc, visited, warnings, printed, chunks, chunk_docs,
                   cache_docs>>

MergeRaise ==
    /\ pc = "merging"
    /\ ~LoopOver(k, cfg.doc_types)
    /\ LET doc_type == cfg.doc_types[k]
           instruct_template == build_instruction(doc_type, cfg.custom_instructions)
           final_prompt == FinalPrompt(doc_type, CombinedDraft(chunk_docs))
       IN \E o \in generate_docs(cfg.provider) :
            /\ o.status # "ok"
            /\ calls' = Append(calls, Call("merge", k, instruct_template,
                                           final_prompt, o))
    /\ pc' = "raised"
    /\ UNCHANGED <<env, visited, warnings, printed, chunks, chunk_docs, k,
                   cache_docs, out_files, written>>

\* "All documents generated successfully! Goodbye."
MergeEnd ==
    /\ pc = "merging"
    /\ LoopOver(k, cfg.doc_types)
    /\ pc' = "done"
    /\ UNCHANGED <<env, visited, warnings, printed, chunks, chunk_docs, k,
                   calls, cache_docs, out_files, written>>

Next ==
    \/ ExitNoDocTypes
    \/ StartScan
    \/ \E fp \in tree : ScanSkipGit(fp)
    \/ \E fp \in tree : ScanSkipIgnored(fp)
    \/ \E fp \in tree : ScanBlacklisted(fp)
    \/ \E fp \in tree : ScanUnreadable(fp)
    \/ \E fp \in tree : ScanYield(fp)
    \/ ScanEnd
    \/ SummariseOk
    \/ SummariseRaise
    \/ SummariseEnd
    \/ MergeOk
    \/ MergeRaise
    \/ MergeEnd

Spec == Init /\ [][Next]_vars

\* A root that holds every kind of path the scanner tells apart: a source
\* file, a blacklisted file, an ignored file, the ignore file and a file of
\* the .git directory
LiveTree == ScenarioTree \cup {Git_h_txt}

InitLive ==
    /\ tree = LiveTree
    /\ unreadable \in SubsetsUpTo({A_py}, 1)
    /\ bigfiles = {}
    /\ gitignore = {StarLog}
    /\ \E dts \in ListsUpTo(DocTypeUniverse, MaxDocTypes) :
           cfg = Config(OpenAI, "gpt-4o", ScenarioBlacklist, dts)
    /\ prior_out \in PriorDirs
    /\ rerun = FirstRun("outside")
    /\ InitRun

\* The interpreter keeps executing generate_from_config until it returns,
\* exits or raises
LiveSpec == InitLive /\ [][Next]_vars /\ WF_vars(Next)

(***************************************************************************)
(* generate_from_config called a second time with the same configuration   *)
(***************************************************************************)

\* A file name of the output directory as a path, character by character
RECURSIVE Spell(_)
Spell(name) ==
    IF name = <<>> THEN <<>>
    ELSE (IF Head(name) = ".md" THEN <<".", "m", "d">> ELSE <<Head(name)>>)
         \o Spell(Tail(name))

\* output_dir relative to code_path
OutputPrefix(placement) ==
    IF placement = "inside" THEN <<"d", "o", "c", "s", "/">> ELSE <<>>

\* doc_folder = Path(output_dir) / "cache_docs"
CacheDir == <<"c", "a", "c", "h", "e", "_", "d", "o", "c", "s", "/">>

\* The files a run has left below code_path
WrittenPaths(placement) ==
    IF placement = "outside" THEN {}
    ELSE {OutputPrefix(placement) \o Spell(n) : n \in DOMAIN out_files}
         \cup {OutputPrefix(placement) \o CacheDir \o Spell(n) :
                  n \in DOMAIN cache_docs}

\* The paths of the chunks the gateway has summarized in this run
SummarizedPaths ==
    {chunks[calls[j].unit].path :
        j \in {i \in DOMAIN calls :
                  calls[i].stage = "summary" /\ calls[i].status = "ok"}}

\* One source file, output_dir at each of its placements
InitRerunPlaced ==
    /\ tree = {A_py}
    /\ unreadable = {}
    /\ bigfiles = {}
    /\ gitignore = {}
    /\ \E dts \in ListsUpTo({Readme}, 1) :
           cfg = Config(OpenAI, "gpt-4o", {}, dts)
    /\ prior_out = EmptyDir
    /\ \E placement \in Placements : rerun = FirstRun(placement)
    /\ InitRun

\* A root with every kind of path, output_dir outside of it
InitRerunOutside ==
    /\ tree = LiveTree
    /\ unreadable = {A_py}
    /\ bigfiles = {}
    /\ gitignore = {StarLog}
    /\ cfg = Config(OpenAI, "gpt-4o", ScenarioBlacklist, <<Readme>>)
    /\ prior_out = EmptyDir
    /\ rerun = FirstRun("outside")
    /\ InitRun

InitRerun == InitRerunPlaced \/ InitRerunOutside

\* The first run is over; generate_from_config is entered again. The source
\* files are as they were; what the first run wrote is on disk
Rerun ==
    /\ pc = "done"
    /\ rerun.n = 1
    /\ tree' = tree \cup WrittenPaths(rerun.placement)
    /\ rerun' = [rerun EXCEPT !.n = 2, !.first = SummarizedPaths]
    /\ prior_out' = out_files
    /\ pc' = "start"
    /\ visited' = {}
    /\ warnings' = <<>>
    /\ printed' = <<>>
    /\ chunks' = <<>>
    /\ chunk_docs' = <<>>
    /\ k' = 1
    /\ calls' = <<>>
    /\ written' = <<>>
    /\ tuples' = <<>>
    /\ UNCHANGED <<unreadable, bigfiles, gitignore, cfg, cache_docs,
                   out_files, arg, res>>

RerunNext == Next \/ Rerun

RerunSpec == InitRerun /\ [][RerunNext]_vars

(***************************************************************************)
(* The functions of llm.py called on their own                             *)
(***************************************************************************)

\* The lines a response is made of: the opening fence, a bare fence, the
\* opening fence with blanks around it, prose, and an empty line
LineUniverse ==
    { <<"FENCE", "markdown">>, <<"FENCE">>,
      <<" ", "FENCE", "markdown", " ">>, <<"x">>, <<>> }

\* The responses of up to MaxLines lines, with or without a final newline
Responses ==
    { Join(<<"\n">>, ls) \o tail :
        ls \in UNION {[1..m -> LineUniverse] : m \in 0..MaxLines},
        tail \in {<<>>, <<"\n">>} }

\* The provider names a caller can pass to generate_docs
ProviderNames ==
    { OpenAI, <<"o", "p", "e", "n", "a", "i">>, <<"O", "P", "E", "N", "A", "I">>,
      Gemini, <<"G", "o", "o", "g", "l", "e">>, <<"g", "o", "o", "g", "l", "e">>,
      Ollama, None }

\* choices=list(PROVIDER_MODELS.keys()) + ["Ollama"]
OfferedProviders == DOMAIN PROVIDER_MODELS \cup {Ollama}

\* The model names a caller can pass to get_context_window
ModelNames == {"gpt-4o", "gpt-4.1", "gemini-1.5-pro", "llama3"}

\* The artifacts build_instruction can find in the output directory
OldTexts == { <<"old">>, <<"old", "\n", "FENCE">> }

\* Nothing of generate_from_config is running
NoRun ==
    /\ tree = {}
    /\ unreadable = {}
    /\ bigfiles = {}
    /\ gitignore = NoSpec
    /\ cfg = Config(None, "gpt-4o", {}, <<>>)
    /\ pc = "idle"
    /\ visited = {}
    /\ warnings = <<>>
    /\ printed = <<>>
    /\ chunks = <<>>
    /\ chunk_docs = <<>>
    /\ k = 0
    /\ calls = <<>>
    /\ cache_docs = EmptyDir
    /\ written = <<>>
    /\ tuples = <<>>
    /\ rerun = FirstRun("outside")
    /\ prior_out = out_files
    /\ res = Idle

InitUnwrap ==
    /\ \E text \in Responses : arg = [fn |-> "unwrap", text |-> text]
    /\ out_files = EmptyDir
    /\ NoRun

InitWindow ==
    /\ \E provider \in ProviderNames, model \in ModelNames :
           arg = [fn |-> "window", provider |-> provider, model |-> model]
    /\ out_files = EmptyDir
    /\ NoRun

InitSelect ==
    /\ \E p \in ProviderNames, q \in ProviderNames :
           arg = [fn |-> "select", provider |-> p, other |-> q]
    /\ out_files = EmptyDir
    /\ NoRun

InitBuild ==
    /\ \E doc_type \in DocTypeUniverse, placement \in Placements,
          custom \in {<<>>, <<"Be brief.">>} :
           /\ arg = [fn |-> "build", doc_type |-> doc_type,
                     placement |-> placement, custom |-> custom]
           /\ \/ out_files = EmptyDir
              \/ \E old \in OldTexts :
                     out_files = [n \in {ArtifactName(doc_type)} |-> old]
    /\ NoRun

FnInit == InitUnwrap \/ InitWindow \/ InitSelect \/ InitBuild

held == <<tree, unreadable, bigfiles, gitignore, cfg, pc, visited, warnings,
          printed, chunks, chunk_docs, k, calls, cache_docs, out_files,
          written, prior_out, tuples, rerun, arg>>

\* unwrap_markdown_block(text)
ApplyUnwrap ==
    /\ arg.fn = "unwrap"
    /\ res = Idle
    /\ res' = [fn |-> "unwrap", once |-> unwrap_markdown_block(arg.text)]
    /\ UNCHANGED held

\* unwrap_markdown_block applied to its own result
ApplyUnwrapAgain ==
    /\ res.fn = "unwrap"
    /\ res' = [fn |-> "unwrap2", once |-> res.once,
               twice |-> unwrap_markdown_block(res.once)]
    /\ UNCHANGED held

\* get_context_window(provider, model)
ApplyWindow ==
    /\ arg.fn = "window"
    /\ res = Idle
    /\ res' = [fn |-> "window",
               window |-> get_context_window(arg.provider, arg.model)]
    /\ UNCHANGED held

\* generate_docs(..., provider) and generate_docs(..., other): for each, the
\* backend invoked, or the ValueError raised before any backend
ApplySelect ==
    /\ arg.fn = "select"
    /\ res = Idle
    /\ \E o1 \in generate_docs(arg.provider), o2 \in generate_docs(arg.other) :
           res' = [fn |-> "select",
                   raised |-> o1.status = "unsupported", backend |-> o1.backend,
                   raised2 |-> o2.status = "unsupported", backend2 |-> o2.backend]
    /\ UNCHANGED held

\* build_instruction(doc_type, output_dir, custom, code_path) of
\* runesmith/llm.py and of core/llm.py
ApplyBuild ==
    /\ arg.fn = "build"
    /\ res = Idle
    /\ res' = [fn |-> "build",
               instruct |-> build_instruction(arg.doc_type, arg.custom),
               core |-> build_instruction_core(arg.doc_type, arg.custom,
                                               arg.placement)]
    /\ UNCHANGED held

FnNext ==
    \/ ApplyUnwrap
    \/ ApplyUnwrapAgain
    \/ ApplyWindow
    \/ ApplySelect
    \/ ApplyBuild

FnSpec == FnInit /\ [][FnNext]_vars

----------------------------------------------------------------------------
(* Vocabulary of the properties *)

ScanOver == pc \in {"summarizing", "merging", "done", "raised"}

SummaryCalls(unit) ==
    {j \in DOMAIN calls : calls[j].stage = "summary" /\ calls[j].unit = unit}

MergeCalls(unit) ==
    {j \in DOMAIN calls : calls[j].stage = "merge" /\ calls[j].unit = unit}

ChunkPaths == {chunks[i].path : i \in DOMAIN chunks}

WarnedFiles(ws) == {ws[i].file : i \in DOMAIN ws}

\* The file matches a pattern of the root's ignore file
MatchesIgnoreFile(fp) == GitignoreName \in tree /\ MatchFile(gitignore, fp)

\* The text the gateway returned for chunk i
ReturnedFor(i) == calls[CHOOSE j \in SummaryCalls(i) : calls[j].status = "ok"].result

\* The part of a merge call's user prompt that follows the sentence naming
\* the document type
DraftIn(call) ==
    SubSeq(call.prompt, Len(FinalPrompt(cfg.doc_types[call.unit], <<>>)) + 1,
           Len(call.prompt))

----------------------------------------------------------------------------
(* C1..C10 *)

\* C1: no merge-stage gateway call is issued until a summarization call has
\* completed for every chunk collected by the scan, and while merge calls
\* are issued the summary list is as long as the chunk list.
C1_MergeAfterEverySummary ==
    /\ \A i \in DOMAIN calls :
          calls[i].stage = "merge" =>
              \A c \in DOMAIN chunks :
                  \E j \in SummaryCalls(c) : j < i /\ calls[j].status = "ok"
    /\ pc = "merging" => Len(chunk_docs) = Len(chunks)

C1_Witness ==
    /\ Len(chunks) >= 2
    /\ \E i \in DOMAIN calls : calls[i].stage = "merge"

\* C2: no gateway call of either stage is attempted when the token count of
\* instruction + "\n" + prompt exceeds the registered context window of the
\* configured model.
C2_NoCallBeyondWindow ==
    \A i \in DOMAIN calls :
        Registered(calls[i].provider, calls[i].model) =>
            count_tokens(FullPrompt(calls[i].instruct, calls[i].prompt))
                <= PROVIDER_MODELS[calls[i].provider][calls[i].model]

\* C3: a failed gateway call for one chunk or one document type does not
\* abort the sibling units: when the run has ended, every chunk and every
\* requested document type has had its call.
C3_SiblingsStillProcessed ==
    pc \in {"done", "raised"} =>
        /\ \A c \in DOMAIN chunks : SummaryCalls(c) # {}
        /\ \A d \in DOMAIN cfg.doc_types : MergeCalls(d) # {}

\* C4: every warning the scanner has produced is printed before the
\* summarizing stage starts.
C4_EveryWarningPrinted ==
    ScanOver =>
        \A i \in DOMAIN warnings : \E j \in DOMAIN printed : printed[j] = warnings[i]

\* C5: once the summarizing stage has finished, the summary list has one
\* entry per chunk and its i-th entry is the text the gateway returned for
\* the call made with the i-th chunk's path and content.
C5_OneSummaryPerChunkInOrder ==
    pc \in {"merging", "done"} =>
        /\ Len(chunk_docs) = Len(chunks)
        /\ \A i \in DOMAIN chunks :
              /\ Cardinality(SummaryCalls(i)) = 1
              /\ \A j \in SummaryCalls(i) :
                    /\ calls[j].status = "ok"
                    /\ calls[j].prompt = SummaryPrompt(chunks[i])
                    /\ chunk_docs[i] = calls[j].result

C5_Witness ==
    /\ pc = "done"
    /\ Len(chunks) >= 2
    /\ chunk_docs[1] # chunk_docs[2]

\* C6: the user prompt of every merge call ends with the summaries the
\* gateway returned, in chunk order, joined by blank lines, which makes the
\* draft the same for every document type; a completed run has issued
\* exactly one merge call per requested document type.
C6_MergePromptHoldsAllSummaries ==
    /\ \A i \in DOMAIN calls :
          calls[i].stage = "merge" =>
              /\ DraftIn(calls[i]) =
                     Join(<<"\n", "\n">>, [c \in DOMAIN chunks |-> ReturnedFor(c)])
              /\ SubSeq(calls[i].prompt, 1, Len(calls[i].prompt) - Len(DraftIn(calls[i])))
                     = FinalPrompt(cfg.doc_types[calls[i].unit], <<>>)
    /\ \A d \in DOMAIN cfg.doc_types : Cardinality(MergeCalls(d)) <= 1
    /\ pc = "done" => \A d \in DOMAIN cfg.doc_types : Cardinality(MergeCalls(d)) = 1

C6_Witness ==
    /\ pc = "done"
    /\ Len(chunks) >= 2
    /\ Len(cfg.doc_types) >= 2
    /\ chunk_docs[1] # chunk_docs[2]

\* C7: a completed run over n chunks and m document types leaves n cache
\* artifacts, each holding its chunk's summary, and m final artifacts, each
\* holding the merge output of its type, and no two units wrote one path.
C7_OneArtifactPerUnit ==
    pc = "done" =>
        /\ Cardinality({n \in DOMAIN cache_docs :
                            \E i \in DOMAIN written : written[i] = <<"cache_docs", n>>})
               = Len(chunks)
        /\ Cardinality({n \in DOMAIN out_files :
                            \E i \in DOMAIN written : written[i] = <<"output_dir", n>>})
               = Len(cfg.doc_types)
        /\ \A i \in DOMAIN chunks :
              cache_docs[CacheName(chunks[i].path)] = chunk_docs[i]
        /\ \A d \in DOMAIN cfg.doc_types : \A j \in MergeCalls(d) :
              out_files[ArtifactName(cfg.doc_types[d])] = calls[j].result
        /\ \A i, j \in DOMAIN written : i # j => written[i] # written[j]

\* C8: a file whose path matches a pattern of the root's ignore file is
\* never a chunk and never the subject of a warning, whatever the blacklist.
C8_IgnoredNeverChunkNorWarning ==
    \A fp \in tree :
        MatchesIgnoreFile(fp) =>
            /\ fp \notin ChunkPaths
            /\ fp \notin WarnedFiles(warnings)
            /\ fp \notin WarnedFiles(printed)

C8_Witness ==
    /\ ScanOver
    /\ \E fp \in tree :
          /\ MatchesIgnoreFile(fp)
          /\ ~InDotGit(fp)
          /\ ExtLabel(fp) \in cfg.blacklist
    /\ chunks # <<>>

\* C9: when the scan is over, every file outside .git that matches no
\* ignore pattern and whose extension label is in the blacklist has been
\* the subject of a yielded warning and is not a chunk.
C9_BlacklistedWarnedNotChunk ==
    ScanOver =>
        \A fp \in tree :
            (~InDotGit(fp) /\ ~MatchesIgnoreFile(fp) /\ ExtLabel(fp) \in cfg.blacklist)
                => (fp \in WarnedFiles(printed) /\ fp \notin ChunkPaths)

\* C10: scanning a.py, b.txt, c.log and a .gitignore holding "*.log" with
\* blacklist [".txt"] yields exactly one chunk, a.py; b.txt gets a blacklist
\* warning and c.log neither a chunk nor a warning.
C10_ScenarioOneChunk ==
    (/\ ScanOver
     /\ tree = ScenarioTree
     /\ unreadable = {}
     /\ gitignore = {StarLog}
     /\ cfg.blacklist = ScenarioBlacklist) =>
        /\ Len(chunks) = 1
        /\ ChunkPaths = {A_py}
        /\ B_txt \in WarnedFiles(printed) \cup WarnedFiles(warnings)
        /\ C_log \notin ChunkPaths
        /\ C_log \notin WarnedFiles(printed) \cup WarnedFiles(warnings)

(***************************************************************************)
(* C11..C20 *)
(***************************************************************************)

\* C11: unwrap_markdown_block is idempotent: applied to its own result, it
\* returns that result unchanged, for every response, nested and repeated
\* fence lines included.
C11_UnwrapIdempotent ==
    res.fn = "unwrap2" => res.twice = res.once

\* The line opens or closes a fence
IsFenceLine(line) ==
    Strip(line) # <<>> /\ Head(Strip(line)) = "FENCE"

\* The whole response is one fenced block: an opening fence line with or
\* without the markdown tag, a closing fence line, no fence line in between
OneFencedBlock(text) ==
    LET lines == SplitLines(text)
    IN /\ Len(lines) >= 2
       /\ Strip(lines[1]) \in {<<"FENCE">>, <<"FENCE", "markdown">>}
       /\ Strip(lines[Len(lines)]) = <<"FENCE">>
       /\ \A i \in 2..(Len(lines) - 1) : ~IsFenceLine(lines[i])

\* C12: the fence is stripped exactly when the whole response is one fenced
\* block, and then the inner content is returned; every other response (text
\* after the closing fence, more than one block) is returned unchanged.
C12_StripsOnlyOneWholeBlock ==
    res.fn = "unwrap" =>
        res.once = IF OneFencedBlock(arg.text)
                   THEN LET lines == SplitLines(arg.text)
                        IN Join(<<"\n">>, SubSeq(lines, 2, Len(lines) - 1))
                   ELSE arg.text

\* The artifact of the doc type exists when build_instruction is called
ArtifactExists == ArtifactName(arg.doc_type) \in DOMAIN out_files

\* part occurs in text, symbol for symbol
Contains(text, part) ==
    \E i \in 1..(Len(text) - Len(part) + 1) :
        SubSeq(text, i, i + Len(part) - 1) = part

\* C13: for an artifact that exists outside code_path, build_instruction
\* returns the update instruction, then the custom instructions, then the
\* artifact's exact text.
C13_UpdateThenCustomThenArtifact ==
    (res.fn = "build" /\ ArtifactExists /\ arg.placement = "outside") =>
        LET expected == UpdateInstruction \o arg.custom
                        \o out_files[ArtifactName(arg.doc_type)]
        IN res.instruct = expected /\ res.core = expected

C13_Witness ==
    /\ res.fn = "build"
    /\ ArtifactExists
    /\ arg.placement = "outside"
    /\ arg.custom # <<>>
    /\ Len(out_files[ArtifactName(arg.doc_type)]) > 1

\* C14: for an artifact that exists inside code_path, nothing of the
\* artifact's content appears in the instruction build_instruction returns.
C14_InsideArtifactNotRead ==
    (res.fn = "build" /\ ArtifactExists /\ arg.placement # "outside") =>
        ~Contains(res.instruct, out_files[ArtifactName(arg.doc_type)])

\* C15: build_instruction returns the update instruction only for an artifact
\* that exists outside code_path; with no artifact, or one inside code_path,
\* it returns the persona naming the doc type, then the custom instructions.
C15_FreshUnlessOutsideArtifact ==
    res.fn = "build" =>
        res.instruct =
            IF ArtifactExists /\ arg.placement = "outside"
            THEN UpdateInstruction \o arg.custom
                 \o out_files[ArtifactName(arg.doc_type)]
            ELSE FreshInstruction(arg.doc_type) \o arg.custom

\* C16: get_context_window returns the registered integer for every pair in
\* PROVIDER_MODELS, and the no-limit value only for a pair that is not
\* registered.
C16_RegisteredWindowReturned ==
    res.fn = "window" =>
        res.window = IF Registered(arg.provider, arg.model)
                     THEN Finite(PROVIDER_MODELS[arg.provider][arg.model])
                     ELSE Infinity

\* C17: with a (provider, model) pair that is not registered, a run that
\* reaches its end has called the gateway for every chunk and has shown the
\* user an unknown-model condition.
C17_UnknownModelRecorded ==
    (~Registered(cfg.provider, cfg.model) /\ pc = "done") =>
        /\ \A i \in DOMAIN chunks : SummaryCalls(i) # {}
        /\ \E i \in DOMAIN printed : printed[i].kind = "UnknownModel"

\* C18: with no doc types configured, generate_from_config reports it and
\* exits before the scan: no path is visited, the gateway is never called,
\* and the cache and the output directory stay as they were.
C18_NoDocTypesExitsBeforeScan ==
    cfg.doc_types = <<>> =>
        /\ pc \in {"start", "exit", "idle"}
        /\ pc = "exit" => \E i \in DOMAIN printed : printed[i] = NoDocTypesMessage
        /\ visited = {}
        /\ calls = <<>>
        /\ written = <<>>
        /\ cache_docs = EmptyDir
        /\ out_files = prior_out

C18_Witness ==
    /\ cfg.doc_types = <<>>
    /\ pc = "exit"
    /\ tree # {}
    /\ prior_out # EmptyDir

\* The letters of the provider names, lower case and upper case
CasePairs ==
    { <<"o", "O">>, <<"p", "P">>, <<"e", "E">>, <<"n", "N">>, <<"a", "A">>,
      <<"i", "I">>, <<"g", "G">>, <<"l", "L">>, <<"m", "M">> }

\* The two names differ at most in letter case
SameButCase(p, q) ==
    /\ Len(p) = Len(q)
    /\ \A i \in 1..Len(p) :
           \/ p[i] = q[i]
           \/ <<p[i], q[i]>> \in CasePairs
           \/ <<q[i], p[i]>> \in CasePairs

\* C19: two provider names that differ only in letter case select the same
\* backend; no provider selects the default one; a name that matches no key
\* of the backend table raises before any backend is invoked.
C19_ProviderSelection ==
    res.fn = "select" =>
        /\ SameButCase(arg.provider, arg.other) =>
               (res.raised = res.raised2 /\ res.backend = res.backend2)
        /\ arg.provider = None =>
               (~res.raised /\ res.backend = DEFAULT_PROVIDER)
        /\ (arg.provider # None
               /\ \A g \in Generators : ~SameButCase(arg.provider, g)) =>
               (res.raised /\ res.backend = NoBackend)
        /\ (\E g \in Generators : SameButCase(arg.provider, g)) =>
               (~res.raised /\ SameButCase(arg.provider, res.backend))

C19_Witness ==
    /\ res.fn = "select"
    /\ arg.provider # arg.other
    /\ SameButCase(arg.provider, arg.other)
    /\ ~res.raised
    /\ res.backend # DEFAULT_PROVIDER

\* C20: the instruction of every merge call is the one the output directory
\* as found on entry gives for its doc type: nothing another doc type wrote
\* during the run enters it.
C20_InstructionFromEntryStateOnly ==
    \A j \in DOMAIN calls :
        calls[j].stage = "merge" =>
            LET doc_type == cfg.doc_types[calls[j].unit]
                name == ArtifactName(doc_type)
            IN calls[j].instruct =
                   IF name \in DOMAIN prior_out
                   THEN UpdateInstruction \o cfg.custom_instructions
                        \o prior_out[name]
                   ELSE FreshInstruction(doc_type) \o cfg.custom_instructions

----------------------------------------------------------------------------
(* C21..C27 *)

\* The states of a run, in the order a run passes through them
PhaseRank(p) ==
    CASE p = "start" -> 0
      [] p = "scanning" -> 1
      [] p = "summarizing" -> 2
      [] p = "merging" -> 3
      [] OTHER -> 4

\* C21: a run moves through scanning, summarizing and merging in that order,
\* one state at a time, and comes to an end; it ends anywhere else than in
\* done only when no doc type was requested (exit) or a gateway call did not
\* return (raised); at done every requested doc type has its final artifact
\* in the output directory, written by this run.
C21_RunsToDone ==
    /\ [][pc' # pc =>
            \/ PhaseRank(pc) < 4 /\ pc' \in {"raised", "exit"}
            \/ PhaseRank(pc') = PhaseRank(pc) + 1]_vars
    /\ [](pc = "done" =>
            \A i \in DOMAIN cfg.doc_types :
                /\ ArtifactName(cfg.doc_types[i]) \in DOMAIN out_files
                /\ \E j \in DOMAIN written :
                       written[j] = <<"output_dir", ArtifactName(cfg.doc_types[i])>>)
    /\ <>(pc \in {"done", "raised", "exit"})
    /\ [](pc = "raised" => \E j \in DOMAIN calls : calls[j].status # "ok")
    /\ [](pc = "exit" => cfg.doc_types = <<>>)

C21_Witness ==
    /\ pc = "done"
    /\ Len(cfg.doc_types) >= 2
    /\ Len(chunks) >= 2
    /\ prior_out # EmptyDir
    /\ warnings # <<>>

\* The file lies in a directory named .git, at any depth below the root
UnderDotGit(fp) ==
    \E i \in 1..Len(fp) :
        /\ i + 4 <= Len(fp)
        /\ SubSeq(fp, i, i + 4) = <<".", "g", "i", "t", "/">>
        /\ i = 1 \/ fp[i - 1] = "/"

\* C22: a file under a .git directory is never a chunk and never named in a
\* warning, pending or printed, whatever the ignore file and the blacklist.
C22_DotGitNeverChunkNorWarning ==
    \A fp \in tree :
        UnderDotGit(fp) =>
            /\ fp \notin ChunkPaths
            /\ fp \notin WarnedFiles(warnings)
            /\ fp \notin WarnedFiles(printed)

C22_Witness ==
    /\ visited = tree
    /\ GitignoreName \in tree
    /\ gitignore # {}
    /\ chunks # <<>>
    /\ \E fp \in tree :
          /\ UnderDotGit(fp)
          /\ ExtLabel(fp) \in cfg.blacklist
          /\ ~MatchesIgnoreFile(fp)

\* C23: a warning is handed to the caller at most once: it is in the list of
\* at most one yielded tuple, once, and in no later tuple of the scan.
C23_WarningDeliveredAtMostOnce ==
    \A i, j \in DOMAIN tuples :
        \A a \in DOMAIN tuples[i].warnings, b \in DOMAIN tuples[j].warnings :
            tuples[i].warnings[a] = tuples[j].warnings[b] => (i = j /\ a = b)

C23_Witness ==
    \E i, j \in DOMAIN tuples :
        /\ i < j
        /\ tuples[i].warnings # <<>>
        /\ visited = tree

\* C24: every provider name prompt_user offers resolves to a backend of the
\* table: generate_docs never raises the unsupported-provider error for it.
C24_OfferedProvidersAccepted ==
    (res.fn = "select" /\ arg.provider \in OfferedProviders) =>
        (~res.raised /\ res.backend \in Generators)

\* A gateway call of the summarization stage did not return
FailedSummary ==
    \E j \in DOMAIN calls : calls[j].stage = "summary" /\ calls[j].status # "ok"

\* C26: once a summarization call has failed, the run is over: no merge call
\* is issued, the output directory holds what it held on entry, and the only
\* files written are the cache artifacts of the chunks before the failing one.
C26_FailedSummaryLeavesFinalsAlone ==
    FailedSummary =>
        /\ pc = "raised"
        /\ \A j \in DOMAIN calls : calls[j].stage # "merge"
        /\ out_files = prior_out
        /\ \A j \in DOMAIN written : written[j][1] = "cache_docs"
        /\ DOMAIN cache_docs = {CacheName(chunks[i].path) : i \in 1..(k - 1)}
        /\ Len(chunk_docs) = k - 1

C26_Witness ==
    /\ FailedSummary
    /\ k = 2
    /\ Len(chunks) >= 2
    /\ prior_out # EmptyDir

\* C27: find_extensions returns a strictly ascending list whose elements are
\* the extension labels of exactly the files collect_code_chunks yields for
\* the same root when the blacklist is empty and every file is readable.
C27_ExtensionsOfTheChunks ==
    (ScanOver /\ cfg.blacklist = {} /\ unreadable = {}) =>
        /\ \A i \in 1..(Len(find_extensions) - 1) :
               StrLess(find_extensions[i], find_extensions[i + 1])
        /\ {find_extensions[i] : i \in DOMAIN find_extensions}
               = {ExtLabel(fp) : fp \in ChunkPaths}

\* C25: a second run with the same configuration and unchanged source files
\* summarizes exactly the chunks the first run summarized, wherever
\* output_dir lies.
C25_SecondRunSameChunks ==
    (rerun.n = 2 /\ pc = "done") => SummarizedPaths = rerun.first

====
